---- MODULE Spec2Model ----
(***************************************************************************)
(* Agent orchestration of ai-DevOmer/Omar: the Tauri commands of           *)
(* src-tauri/src/main.rs (run_agent, stop_agent, set_api_key,              *)
(* check_api_key) around the shared AppState, and the streaming provider   *)
(* client GeminiClient::send_message_streaming of src-tauri/src/gemini.rs. *)
(*                                                                         *)
(* Bytes are one-character strings.  The response body is ASCII, so        *)
(* String::from_utf8_lossy changes nothing, and lines end in "\n" only.    *)
(* A frame's JSON text is written with its fixed parts collapsed:          *)
(*   "{" "c" <chars> "}"  is {"choices":[{"delta":{"content":"<chars>"}}]} *)
(*   "{" "t" "}"          is a delta that starts a tool call               *)
(*   "{" "f" "}"          is a delta with finish_reason "tool_calls"       *)
(*   "{" "u" "}"          is a frame that carries only usage metadata      *)
(* so that a proper prefix or suffix of a JSON text is not a JSON text,    *)
(* as for serde_json::from_str.                                            *)
(***************************************************************************)
EXTENDS Integers, Sequences, FiniteSets

(* ------------------------------ bounds -------------------------------- *)

\* run_agent invocations the presentation layer issues in one behaviour
MaxCalls == 2

\* frames of a response stream before its sentinel
MaxFrames == 2

\* messages of the conversation handed to one provider call
MaxMessages == 2

\* content blocks of the conversation handed to one provider call
MaxBlocks == 2

Calls == 1..MaxCalls

(* --------------------------- wire protocol ---------------------------- *)

NL == "\n"

\* the frame prefix `data: ` tested by line.starts_with("data: ")
DataPrefix == <<"d", "a", "t", "a", ":", " ">>

\* the sentinel compared with data == "[DONE]"
DoneSentinel == <<"[", "D", "O", "N", "E", "]">>

TextFrame(s) == DataPrefix \o <<"{", "c">> \o s \o <<"}", NL>>

MarkFrame(m) == DataPrefix \o <<"{", m, "}", NL>>

DoneFrame == DataPrefix \o DoneSentinel \o <<NL>>

\* the frames a provider sends before the sentinel
Frames ==
    { TextFrame(<<"H", "e", "l">>), TextFrame(<<"l", "o">>), MarkFrame("t") }

\* every concatenation of at most n frames
RECURSIVE FrameSeqs(_)
FrameSeqs(n) ==
    IF n = 0 THEN {<<>>}
    ELSE FrameSeqs(n - 1) \cup {fs \o f : fs \in FrameSeqs(n - 1), f \in Frames}

\* the event streams of send_message_streaming on its own: frames, then [DONE]
Streams == {fs \o DoneFrame : fs \in FrameSeqs(MaxFrames)}

\* a line that is no frame: blank, an SSE comment without the `data: ` prefix,
\* and a `data: ` line whose JSON text is cut short
JunkLines == { <<NL>>, <<":", NL>>, DataPrefix \o <<"{", "c", "x", NL>> }

\* the lines of a body delivered line by line: a text frame, a usage frame,
\* the junk lines, and a sentinel sent before the end of the body
LineFrames == { TextFrame(<<"H", "e", "l">>), MarkFrame("u"), DoneFrame } \cup JunkLines

\* every concatenation of at most n of these lines
RECURSIVE LineSeqs(_)
LineSeqs(n) ==
    IF n = 0 THEN {<<>>}
    ELSE LineSeqs(n - 1) \cup {ls \o f : ls \in LineSeqs(n - 1), f \in LineFrames}

\* the bodies delivered line by line: lines, then [DONE]
LineStreams == {ls \o DoneFrame : ls \in LineSeqs(MaxFrames)}

\* the example of the specification: "Hel", "lo", [DONE]
HelloStream == TextFrame(<<"H", "e", "l">>) \o TextFrame(<<"l", "o">>) \o DoneFrame

\* the event streams a run of the whole program receives
RunStreams == {TextFrame(<<"o", "k">>) \o DoneFrame}

\* bodies a provider sends with a non-success status
Bodies == {<<"quota exceeded">>, <<"bad key">>}

Keys == {"key1"}

\* keys that storage holds for the "anthropic" service
StoredKeys == {"stored1"}

\* the longest response body
MaxBody == Len(DoneFrame) + MaxFrames * Len(TextFrame(<<"H", "e", "l">>))

NoKey == "none"

(* ------------------------- gemini.rs: decoding ------------------------ *)

\* index of the first "\n" of t, or 0
RECURSIVE FirstNL(_, _)
FirstNL(t, i) ==
    IF i > Len(t) THEN 0
    ELSE IF t[i] = NL THEN i
    ELSE FirstNL(t, i + 1)

\* str::lines: split at "\n", the final line ending optional
RECURSIVE Lines(_)
Lines(t) ==
    IF t = <<>> THEN <<>>
    ELSE LET k == FirstNL(t, 1) IN
         IF k = 0 THEN <<t>>
         ELSE <<SubSeq(t, 1, k - 1)>> \o Lines(SubSeq(t, k + 1, Len(t)))

\* line.starts_with("data: ")
StartsWithData(line) ==
    /\ Len(line) >= Len(DataPrefix)
    /\ SubSeq(line, 1, Len(DataPrefix)) = DataPrefix

\* serde_json::from_str::<Value>(data) is Ok
JsonOk(data) ==
    /\ Len(data) >= 2
    /\ data[1] = "{"
    /\ data[Len(data)] = "}"
    /\ \A i \in 2..(Len(data) - 1) : data[i] \notin {"{", "}"}

\* json["choices"][0]["delta"]["content"].as_str() is Some
HasContent(data) == Len(data) >= 3 /\ data[2] = "c"

ContentOf(data) == SubSeq(data, 3, Len(data) - 1)

TextDelta(s) == [type |-> "TextDelta", text |-> s]

\* a `data: ` line whose JSON does not parse ends the loop
RECURSIVE ProcessLinesStopsAtJunk(_, _)
ProcessLinesStopsAtJunk(ls, acc) ==
    IF ls = <<>> THEN acc
    ELSE LET line == Head(ls) IN
         IF StartsWithData(line)
         THEN LET data == SubSeq(line, Len(DataPrefix) + 1, Len(line)) IN
              IF data = DoneSentinel \/ ~JsonOk(data) THEN acc
              ELSE IF HasContent(data)
                   THEN ProcessLinesStopsAtJunk(Tail(ls),
                            [text   |-> acc.text \o ContentOf(data),
                             events |-> Append(acc.events, TextDelta(ContentOf(data)))])
                   ELSE ProcessLinesStopsAtJunk(Tail(ls), acc)
         ELSE ProcessLinesStopsAtJunk(Tail(ls), acc)

\* the body of `for line in text.lines()`, with its break at [DONE]
RECURSIVE ProcessLines(_, _)
ProcessLines(ls, acc) ==
    IF ls = <<>> THEN acc
    ELSE LET line == Head(ls) IN
         IF StartsWithData(line)
         THEN LET data == SubSeq(line, Len(DataPrefix) + 1, Len(line)) IN
              IF data = DoneSentinel THEN acc
              ELSE IF JsonOk(data) /\ HasContent(data)
                   THEN ProcessLines(Tail(ls),
                            [text   |-> acc.text \o ContentOf(data),
                             events |-> Append(acc.events, TextDelta(ContentOf(data)))])
                   ELSE ProcessLines(Tail(ls), acc)
         ELSE ProcessLines(Tail(ls), acc)

\* one iteration of `while let Some(item) = stream.next().await` on Ok(chunk)
ProcessChunk(chunk, acc) == ProcessLines(Lines(chunk), acc)

(* ------------------------ gemini.rs: the request ---------------------- *)

\* AgentMode
Modes == {"Computer", "Browser"}

\* Message.role
Roles == {"user", "assistant"}

\* ContentBlock: a record per variant, the fields a variant lacks left empty
TextBlock(t) == [type |-> "Text", text |-> t, media_type |-> "", data |-> ""]

ImageBlock(mt, d) == [type |-> "Image", text |-> "", media_type |-> mt, data |-> d]

OtherBlock(ty) == [type |-> ty, text |-> "", media_type |-> "", data |-> ""]

Blocks ==
    { TextBlock("hi"), ImageBlock("image/png", "AAAA"),
      OtherBlock("ToolUse"), OtherBlock("ToolResult") }

\* every content of at most n blocks
RECURSIVE BlockSeqs(_)
BlockSeqs(n) ==
    IF n = 0 THEN {<<>>}
    ELSE BlockSeqs(n - 1) \cup {bs \o <<b>> : bs \in BlockSeqs(n - 1), b \in Blocks}

\* every conversation of at most m messages with at most b blocks in all
RECURSIVE MessageLists(_, _)
MessageLists(m, b) ==
    IF m = 0 THEN {<<>>}
    ELSE {<<>>} \cup
         UNION { { <<[role |-> r, content |-> c]>> \o rest :
                       r \in Roles, rest \in MessageLists(m - 1, b - Len(c)) } :
                 c \in BlockSeqs(b) }

\* the conversation of a run of the whole program
DefaultMessages == <<[role |-> "user", content |-> <<TextBlock("hi")>>]>>

\* the Computer prompt whatever the mode
SystemPromptAnyMode(m) == "SYSTEM_PROMPT"

\* lines 37-40: `match mode`
SystemPrompt(m) ==
    IF m = "Computer" THEN "SYSTEM_PROMPT" ELSE "BROWSER_SYSTEM_PROMPT"

\* format!("data:{};base64,{}", source.media_type, source.data)
DataUrl(mt, d) == <<"data:", mt, ";base64,", d>>

\* lines 48-66: the parts made of the blocks of one message
RECURSIVE ContentParts(_)
ContentParts(blocks) ==
    IF blocks = <<>> THEN <<>>
    ELSE LET block == Head(blocks) IN
         IF block.type = "Text"
         THEN <<[type |-> "text", text |-> block.text, url |-> <<>>]>>
                  \o ContentParts(Tail(blocks))
         ELSE IF block.type = "Image"
         THEN <<[type |-> "image_url", text |-> "",
                 url |-> DataUrl(block.media_type, block.data)]>>
                  \o ContentParts(Tail(blocks))
         ELSE ContentParts(Tail(blocks))

\* lines 47-72: `for msg in messages`
RECURSIVE ConvertMessages(_)
ConvertMessages(msgs) ==
    IF msgs = <<>> THEN <<>>
    ELSE <<[role |-> Head(msgs).role, content |-> ContentParts(Head(msgs).content)]>>
             \o ConvertMessages(Tail(msgs))

\* a message whose blocks were all skipped is left out
BuildMessagesDropsEmpty(msgs, m) ==
    <<[role |-> "system", content |-> SystemPrompt(m)]>>
        \o SelectSeq(ConvertMessages(msgs), LAMBDA o : o.content # <<>>)

\* lines 34-72: openai_messages
BuildMessages(msgs, m) ==
    <<[role |-> "system", content |-> SystemPrompt(m)]>> \o ConvertMessages(msgs)

\* lines 74-79: request_body
RequestBody(msgs, m) ==
    [model |-> "gemini-2.0-flash", messages |-> BuildMessages(msgs, m),
     stream |-> TRUE, max_tokens |-> 4096]

\* no request has been built
NoRequest == [model |-> "none", messages |-> <<>>, stream |-> FALSE, max_tokens |-> 0]

(* ------------------------------- state -------------------------------- *)

VARIABLES
    api_key,        \* Agent.api_key of the agent in AppState: NoKey or a key
    running,        \* AppState.running, the AtomicBool shared with the agent
    agent_lock,     \* AppState.agent's Mutex: its holder (head), then the waiters in order
    call_pc,        \* per run_agent invocation: "idle", "lock" (awaiting line 139), "done"
    call_ret,       \* per run_agent invocation: "none", "Ok", "AlreadyRunning", "NoKey"
    task_pc,        \* per spawned task: where it stands in lines 148-154
    outcome,        \* per spawned task: how Agent::run ended
    cmd_pc,         \* the settings command in flight: "idle", "set_api_key", "check_api_key";
                    \* "boot" while main has not yet started the Tauri application
    cmd_key,        \* the api_key argument of the set_api_key in flight
    requests,       \* HTTP requests sent by the current send_message_streaming call
    response,       \* the whole body of the response it received
    body,           \* the response body still to be read by the current call
    full_text,      \* its local full_text
    event_tx,       \* the StreamEvents it has sent on event_tx
    sm_ret,         \* what it returned
    issued_in_run,  \* history: a run was executing when this run_agent was invoked
    cancel_mark,    \* history: events sent when stop was requested mid-stream, or -1
    stream_err,     \* history: reading a chunk of the body failed
    messages,       \* the messages argument of send_message_streaming
    mode,           \* its mode argument
    request_body,   \* the request_body it built
    stored_key      \* the "anthropic" key kept by storage: NoKey or a key

vars == <<api_key, running, agent_lock, call_pc, call_ret, task_pc, outcome,
          cmd_pc, cmd_key, requests, response, body, full_text, event_tx,
          sm_ret, issued_in_run, cancel_mark, stream_err, messages, mode,
          request_body, stored_key>>

ctl_vars == <<api_key, running, agent_lock, call_pc, call_ret, task_pc, outcome,
              cmd_pc, cmd_key, stored_key, issued_in_run>>

call_vars == <<call_pc, call_ret, issued_in_run>>

cmd_vars == <<cmd_pc, cmd_key, stored_key>>

req_vars == <<messages, mode, request_body>>

stream_vars == <<requests, response, body, full_text, event_tx, sm_ret, stream_err,
                 req_vars>>

CallId(c) == <<"call", c>>

TaskId(c) == <<"task", c>>

CmdId == <<"cmd", 0>>

\* the future holds the MutexGuard
Holds(p) == agent_lock # <<>> /\ Head(agent_lock) = p

\* where a task is between the start and the return of Agent::run
RunPcs == {"run", "request", "error_body", "streaming", "returned"}

\* where Agent::run is suspended on the provider's network I/O
AwaitPcs == {"request", "error_body", "streaming"}

InRun(c) == task_pc[c] \in RunPcs

NoRet == [kind |-> "none", error |-> "none", message |-> <<>>, content |-> <<>>]

ErrRet(e, m) == [kind |-> "Err", error |-> e, message |-> m, content |-> <<>>]

\* ApiResult { content: [ContentBlock::Text { text: full_text }], usage: zeros }
OkRet(text) ==
    [kind |-> "Ok", error |-> "none", message |-> <<>>,
     content |-> <<[type |-> "Text", text |-> text]>>]

Init ==
    /\ api_key = NoKey
    /\ running = FALSE
    /\ agent_lock = <<>>
    /\ call_pc = [c \in Calls |-> "idle"]
    /\ call_ret = [c \in Calls |-> "none"]
    /\ task_pc = [c \in Calls |-> "none"]
    /\ outcome = [c \in Calls |-> "none"]
    /\ cmd_pc = "idle"
    /\ cmd_key = NoKey
    /\ requests = 0
    /\ response = <<>>
    /\ body = <<>>
    /\ full_text = <<>>
    /\ event_tx = <<>>
    /\ sm_ret = NoRet
    /\ issued_in_run = [c \in Calls |-> FALSE]
    /\ cancel_mark = -1
    /\ stream_err = FALSE
    /\ messages = DefaultMessages
    /\ mode = "Computer"
    /\ request_body = NoRequest
    /\ stored_key = NoKey

(* ---------------------- main.rs: the Tauri commands ------------------- *)

\* run_agent is invoked and reaches `agent.lock().await` of line 139
RunAgentCall(c) ==
    /\ call_pc[c] = "idle"
    /\ \A d \in Calls : d < c => call_pc[d] # "idle"
    /\ call_pc' = [call_pc EXCEPT ![c] = "lock"]
    /\ agent_lock' = Append(agent_lock, CallId(c))
    /\ issued_in_run' = [issued_in_run EXCEPT ![c] = \E t \in Calls : InRun(t)]
    /\ UNCHANGED <<api_key, running, call_ret, task_pc, outcome, cmd_vars,
                   stream_vars, cancel_mark>>

\* what lines 140-156 return under the guard
RunAgentResult ==
    IF running THEN "AlreadyRunning"
    ELSE IF api_key = NoKey THEN "NoKey"
    ELSE "Ok"

\* the task is spawned whatever the check under the guard found
RunAgentCheckSpawns(c) ==
    /\ call_pc[c] = "lock"
    /\ Holds(CallId(c))
    /\ call_ret' = [call_ret EXCEPT ![c] = RunAgentResult]
    /\ task_pc' = [task_pc EXCEPT ![c] = "spawned"]
    /\ call_pc' = [call_pc EXCEPT ![c] = "done"]
    /\ agent_lock' = Tail(agent_lock)
    /\ UNCHANGED <<api_key, running, outcome, cmd_vars, stream_vars,
                   issued_in_run, cancel_mark>>

\* lines 139-156: the check under the guard, the guard's drop, tokio::spawn
RunAgentCheck(c) ==
    /\ call_pc[c] = "lock"
    /\ Holds(CallId(c))
    /\ call_ret' = [call_ret EXCEPT ![c] = RunAgentResult]
    /\ task_pc' = [task_pc EXCEPT
                      ![c] = IF RunAgentResult = "Ok" THEN "spawned" ELSE @]
    /\ call_pc' = [call_pc EXCEPT ![c] = "done"]
    /\ agent_lock' = Tail(agent_lock)
    /\ UNCHANGED <<api_key, running, outcome, cmd_vars, stream_vars,
                   issued_in_run, cancel_mark>>

\* the spawned task takes the guard ahead of its holder and of the waiters
TaskLockBarges(c) ==
    /\ task_pc[c] = "spawned"
    /\ task_pc' = [task_pc EXCEPT ![c] = "locking"]
    /\ agent_lock' = <<TaskId(c)>> \o agent_lock
    /\ UNCHANGED <<api_key, running, call_vars, outcome, cmd_vars, stream_vars,
                   cancel_mark>>

\* line 149: the spawned task reaches `agent.lock().await`
TaskLock(c) ==
    /\ task_pc[c] = "spawned"
    /\ task_pc' = [task_pc EXCEPT ![c] = "locking"]
    /\ agent_lock' = Append(agent_lock, TaskId(c))
    /\ UNCHANGED <<api_key, running, call_vars, outcome, cmd_vars, stream_vars,
                   cancel_mark>>

\* lines 151-154: run has returned, the task ends and its guard is dropped
TaskExit(c) ==
    /\ task_pc[c] = "exit"
    /\ Holds(TaskId(c))
    /\ task_pc' = [task_pc EXCEPT ![c] = "done"]
    /\ agent_lock' = Tail(agent_lock)
    /\ UNCHANGED <<api_key, running, call_vars, outcome, cmd_vars, stream_vars,
                   cancel_mark>>

\* the flag is cleared under the agent lock, once the lock is free
StopAgentLocked ==
    /\ agent_lock = <<>>
    /\ running' = FALSE
    /\ cancel_mark' = cancel_mark
    /\ UNCHANGED <<api_key, agent_lock, call_vars, task_pc, outcome, cmd_vars,
                   stream_vars>>

\* lines 160-164 (and the stop shortcut, lines 480-483)
StopAgent ==
    /\ running' = FALSE
    /\ cancel_mark' = IF (\E c \in Calls : task_pc[c] = "streaming") /\ cancel_mark = -1
                      THEN Len(event_tx)
                      ELSE cancel_mark
    /\ UNCHANGED <<api_key, agent_lock, call_vars, task_pc, outcome, cmd_vars,
                   stream_vars>>

\* set_api_key is invoked and reaches `state.agent.lock().await` of line 109
SetApiKeyCall(k) ==
    /\ cmd_pc = "idle"
    /\ cmd_pc' = "set_api_key"
    /\ cmd_key' = k
    /\ agent_lock' = Append(agent_lock, CmdId)
    /\ UNCHANGED <<api_key, running, call_vars, task_pc, outcome, stream_vars,
                   cancel_mark, stored_key>>

\* lines 110-111
SetApiKey ==
    /\ cmd_pc = "set_api_key"
    /\ Holds(CmdId)
    /\ api_key' = cmd_key
    /\ cmd_pc' = "idle"
    /\ cmd_key' = NoKey
    /\ agent_lock' = Tail(agent_lock)
    /\ UNCHANGED <<running, call_vars, task_pc, outcome, stream_vars, cancel_mark,
                   stored_key>>

\* check_api_key is invoked and reaches `state.agent.lock().await` of line 116
CheckApiKeyCall ==
    /\ cmd_pc = "idle"
    /\ cmd_pc' = "check_api_key"
    /\ agent_lock' = Append(agent_lock, CmdId)
    /\ UNCHANGED <<api_key, running, call_vars, task_pc, outcome, cmd_key,
                   stream_vars, cancel_mark, stored_key>>

\* line 117: has_api_key() is read and returned, the guard is dropped
CheckApiKey ==
    /\ cmd_pc = "check_api_key"
    /\ Holds(CmdId)
    /\ cmd_pc' = "idle"
    /\ agent_lock' = Tail(agent_lock)
    /\ UNCHANGED <<api_key, running, call_vars, task_pc, outcome, cmd_key,
                   stream_vars, cancel_mark, stored_key>>

\* lines 166-169: the flag is read and returned
IsAgentRunning == UNCHANGED vars

\* lines 387-390: storage::save_api_key stores the key of a service, or fails
SaveApiKey(k) ==
    /\ stored_key' \in {k, stored_key}
    /\ UNCHANGED <<api_key, running, agent_lock, call_vars, task_pc, outcome,
                   cmd_pc, cmd_key, stream_vars, cancel_mark>>

\* the stored key is put into the agent of AppState
MainLoadsStoredKey ==
    /\ cmd_pc = "boot"
    /\ cmd_pc' = "idle"
    /\ api_key' = IF stored_key # NoKey THEN stored_key ELSE api_key
    /\ UNCHANGED <<running, agent_lock, call_vars, task_pc, outcome, cmd_key,
                   stored_key, stream_vars, cancel_mark>>

\* lines 430-442: a stored key is set on `agent_sync`, a second Agent that
\* is dropped at the end of the block; then the application starts
MainLoadKeys ==
    /\ cmd_pc = "boot"
    /\ cmd_pc' = "idle"
    /\ UNCHANGED <<api_key, running, agent_lock, call_vars, task_pc, outcome,
                   cmd_key, stored_key, stream_vars, cancel_mark>>

(* --------------- gemini.rs: send_message_streaming -------------------- *)

\* the locals and the channel of a call that has not started
FreshLocals ==
    /\ requests' = 0
    /\ response' = <<>>
    /\ body' = <<>>
    /\ full_text' = <<>>
    /\ event_tx' = <<>>
    /\ sm_ret' = NoRet
    /\ stream_err' = FALSE
    /\ cancel_mark' = -1
    /\ request_body' = NoRequest
    /\ UNCHANGED <<messages, mode>>

\* lines 34-87: the request is built and sent, `send().await?` fails
SendFail(c) ==
    /\ task_pc[c] = "request"
    /\ request_body' = RequestBody(messages, mode)
    /\ requests' = requests + 1
    /\ UNCHANGED <<messages, mode>>
    /\ sm_ret' = ErrRet("Transport", <<>>)
    /\ task_pc' = [task_pc EXCEPT ![c] = "returned"]
    /\ UNCHANGED <<api_key, running, agent_lock, call_vars, outcome, cmd_vars,
                   response, body, full_text, event_tx, stream_err, cancel_mark>>

\* lines 34-89: the request is built and sent, the status is not success
SendStatusError(c, text) ==
    /\ task_pc[c] = "request"
    /\ request_body' = RequestBody(messages, mode)
    /\ requests' = requests + 1
    /\ UNCHANGED <<messages, mode>>
    /\ response' = text
    /\ task_pc' = [task_pc EXCEPT ![c] = "error_body"]
    /\ UNCHANGED <<api_key, running, agent_lock, call_vars, outcome, cmd_vars,
                   body, full_text, event_tx, sm_ret, stream_err, cancel_mark>>

\* lines 34-96: the request is built and sent, the status is success, the stream opens
SendOk(c, s) ==
    /\ task_pc[c] = "request"
    /\ request_body' = RequestBody(messages, mode)
    /\ requests' = requests + 1
    /\ UNCHANGED <<messages, mode>>
    /\ response' = s
    /\ body' = s
    /\ task_pc' = [task_pc EXCEPT ![c] = "streaming"]
    /\ UNCHANGED <<api_key, running, agent_lock, call_vars, outcome, cmd_vars,
                   full_text, event_tx, sm_ret, stream_err, cancel_mark>>

\* the provider's text left out of the error
ApiErrorRetNoText(text) == ErrRet("Api", <<"Gemini API error: ">>)

\* what lines 90-91 return when `response.text().await` gave the body
ApiErrorRet(text) == ErrRet("Api", <<"Gemini API error: ">> \o text)

\* lines 90-91: the error body is read, or reading it fails
ReadErrorBody(c) ==
    /\ task_pc[c] = "error_body"
    /\ \/ sm_ret' = ApiErrorRet(response)
       \/ sm_ret' = ErrRet("Transport", <<>>)
    /\ task_pc' = [task_pc EXCEPT ![c] = "returned"]
    /\ UNCHANGED <<api_key, running, agent_lock, call_vars, outcome, cmd_vars,
                   requests, response, body, full_text, event_tx, stream_err,
                   cancel_mark>>
    /\ UNCHANGED req_vars

\* the events of a chunk are put in front of the events already sent
ReadChunkPrepends(c, k) ==
    /\ task_pc[c] = "streaming"
    /\ k \in 1..Len(body)
    /\ LET acc == ProcessChunk(SubSeq(body, 1, k), [text |-> <<>>, events |-> <<>>])
       IN /\ full_text' = full_text \o acc.text
          /\ event_tx' = acc.events \o event_tx
    /\ body' = SubSeq(body, k + 1, Len(body))
    /\ UNCHANGED <<ctl_vars, requests, response, sm_ret, stream_err, cancel_mark>>
    /\ UNCHANGED req_vars

\* lines 98-117: stream.next() yields the next k bytes of the body
ReadChunk(c, k) ==
    /\ task_pc[c] = "streaming"
    /\ k \in 1..Len(body)
    /\ LET acc == ProcessChunk(SubSeq(body, 1, k),
                               [text |-> full_text, events |-> event_tx])
       IN /\ full_text' = acc.text
          /\ event_tx' = acc.events
    /\ body' = SubSeq(body, k + 1, Len(body))
    /\ UNCHANGED <<ctl_vars, requests, response, sm_ret, stream_err, cancel_mark>>
    /\ UNCHANGED req_vars

\* a chunk error taken for the end of the stream: the partial text is returned
ReadChunkErrorSwallowed(c) ==
    /\ task_pc[c] = "streaming"
    /\ stream_err' = TRUE
    /\ sm_ret' = OkRet(full_text)
    /\ task_pc' = [task_pc EXCEPT ![c] = "returned"]
    /\ UNCHANGED <<api_key, running, agent_lock, call_vars, outcome, cmd_vars,
                   requests, response, body, full_text, event_tx, cancel_mark>>
    /\ UNCHANGED req_vars

\* lines 98-99: stream.next() yields Some(Err), `item?` returns
ReadChunkError(c) ==
    /\ task_pc[c] = "streaming"
    /\ stream_err' = TRUE
    /\ sm_ret' = ErrRet("Transport", <<>>)
    /\ task_pc' = [task_pc EXCEPT ![c] = "returned"]
    /\ UNCHANGED <<api_key, running, agent_lock, call_vars, outcome, cmd_vars,
                   requests, response, body, full_text, event_tx, cancel_mark>>
    /\ UNCHANGED req_vars

\* the result is built without a block when no text was received
StreamEndSkipsEmpty(c) ==
    /\ task_pc[c] = "streaming"
    /\ body = <<>>
    /\ sm_ret' = IF full_text = <<>> THEN [OkRet(<<>>) EXCEPT !.content = <<>>]
                                     ELSE OkRet(full_text)
    /\ task_pc' = [task_pc EXCEPT ![c] = "returned"]
    /\ UNCHANGED <<api_key, running, agent_lock, call_vars, outcome, cmd_vars,
                   requests, response, body, full_text, event_tx, stream_err,
                   cancel_mark>>
    /\ UNCHANGED req_vars

\* lines 98, 119-129: stream.next() yields None, the result is built
StreamEnd(c) ==
    /\ task_pc[c] = "streaming"
    /\ body = <<>>
    /\ sm_ret' = OkRet(full_text)
    /\ task_pc' = [task_pc EXCEPT ![c] = "returned"]
    /\ UNCHANGED <<api_key, running, agent_lock, call_vars, outcome, cmd_vars,
                   requests, response, body, full_text, event_tx, stream_err,
                   cancel_mark>>
    /\ UNCHANGED req_vars

(* ------------------- Agent::run (module agent) ------------------------ *)

\* the task holds the guard and Agent::run starts: running goes false -> true
RunBegin(c) ==
    /\ task_pc[c] = "locking"
    /\ Holds(TaskId(c))
    /\ running' = TRUE
    /\ task_pc' = [task_pc EXCEPT ![c] = "run"]
    /\ UNCHANGED <<api_key, agent_lock, call_vars, outcome, cmd_vars, stream_vars,
                   cancel_mark>>

\* the turn loop: cancellation seen between turns, no provider call is started
RunCancelled(c) ==
    /\ task_pc[c] = "run"
    /\ ~running
    /\ outcome' = [outcome EXCEPT ![c] = "Cancelled"]
    /\ task_pc' = [task_pc EXCEPT ![c] = "exit"]
    /\ UNCHANGED <<api_key, running, agent_lock, call_vars, cmd_vars, stream_vars,
                   cancel_mark>>

\* the turn loop: the provider client is called
RunTurn(c) ==
    /\ task_pc[c] = "run"
    /\ running
    /\ task_pc' = [task_pc EXCEPT ![c] = "request"]
    /\ UNCHANGED <<api_key, running, agent_lock, call_vars, outcome, cmd_vars,
                   stream_vars, cancel_mark>>

\* how the run ends once the provider call has returned
RunOutcome ==
    IF sm_ret.kind = "Err" THEN "Failed"
    ELSE IF ~running THEN "Cancelled"
    ELSE "Completed"

\* the flag is cleared on the successful return only
RunEndLeaky(c) ==
    /\ task_pc[c] = "returned"
    /\ outcome' = [outcome EXCEPT ![c] = RunOutcome]
    /\ running' = (running /\ sm_ret.kind = "Err")
    /\ task_pc' = [task_pc EXCEPT ![c] = "exit"]
    /\ FreshLocals
    /\ UNCHANGED <<api_key, agent_lock, call_vars, cmd_vars>>

\* Agent::run returns: the running flag is cleared on every exit path
RunEnd(c) ==
    /\ task_pc[c] = "returned"
    /\ outcome' = [outcome EXCEPT ![c] = RunOutcome]
    /\ running' = FALSE
    /\ task_pc' = [task_pc EXCEPT ![c] = "exit"]
    /\ FreshLocals
    /\ UNCHANGED <<api_key, agent_lock, call_vars, cmd_vars>>

\* Agent::run crashes: the flag is released all the same
RunCrash(c) ==
    /\ task_pc[c] \in RunPcs
    /\ outcome' = [outcome EXCEPT ![c] = "Crashed"]
    /\ running' = FALSE
    /\ task_pc' = [task_pc EXCEPT ![c] = "exit"]
    /\ FreshLocals
    /\ UNCHANGED <<api_key, agent_lock, call_vars, cmd_vars>>

(* --------------------------- specification ---------------------------- *)

Next ==
    \/ \E c \in Calls : RunAgentCall(c)
    \/ \E c \in Calls : RunAgentCheck(c)
    \/ \E c \in Calls : TaskLock(c)
    \/ \E c \in Calls : RunBegin(c)
    \/ \E c \in Calls : RunCancelled(c)
    \/ \E c \in Calls : RunTurn(c)
    \/ \E c \in Calls : SendFail(c)
    \/ \E c \in Calls, text \in Bodies : SendStatusError(c, text)
    \/ \E c \in Calls, s \in RunStreams : SendOk(c, s)
    \/ \E c \in Calls : ReadErrorBody(c)
    \/ \E c \in Calls, k \in 1..MaxBody : ReadChunk(c, k)
    \/ \E c \in Calls : ReadChunkError(c)
    \/ \E c \in Calls : StreamEnd(c)
    \/ \E c \in Calls : RunEnd(c)
    \/ \E c \in Calls : RunCrash(c)
    \/ \E c \in Calls : TaskExit(c)
    \/ StopAgent
    \/ \E k \in Keys : SetApiKeyCall(k)
    \/ SetApiKey
    \/ CheckApiKeyCall
    \/ CheckApiKey

Spec == Init /\ [][Next]_vars

(* send_message_streaming on its own: one accepted run_agent whose task    *)
(* holds the guard, Agent::run has set the flag and calls the client; the  *)
(* provider's answer is drawn from Streams, and stop_agent may be invoked  *)
(* at any time.                                                            *)
StreamInit ==
    /\ api_key \in Keys
    /\ running = TRUE
    /\ agent_lock = <<TaskId(1)>>
    /\ call_pc = [c \in Calls |-> IF c = 1 THEN "done" ELSE "idle"]
    /\ call_ret = [c \in Calls |-> IF c = 1 THEN "Ok" ELSE "none"]
    /\ task_pc = [c \in Calls |-> IF c = 1 THEN "request" ELSE "none"]
    /\ outcome = [c \in Calls |-> "none"]
    /\ cmd_pc = "idle"
    /\ cmd_key = NoKey
    /\ requests = 0
    /\ response = <<>>
    /\ body = <<>>
    /\ full_text = <<>>
    /\ event_tx = <<>>
    /\ sm_ret = NoRet
    /\ issued_in_run = [c \in Calls |-> FALSE]
    /\ cancel_mark = -1
    /\ stream_err = FALSE
    /\ messages = DefaultMessages
    /\ mode = "Computer"
    /\ request_body = NoRequest
    /\ stored_key = NoKey

StreamNext ==
    \/ SendFail(1)
    \/ \E text \in Bodies : SendStatusError(1, text)
    \/ \E s \in Streams : SendOk(1, s)
    \/ ReadErrorBody(1)
    \/ \E k \in 1..MaxBody : ReadChunk(1, k)
    \/ ReadChunkError(1)
    \/ StreamEnd(1)
    \/ StopAgent

StreamSpec == StreamInit /\ [][StreamNext]_vars

\* the ends of the lines of the body still to be read
LineEnds(t) == {k \in 1..Len(t) : t[k] = NL}

(* send_message_streaming when the network delivers whole lines: every      *)
(* chunk ends with a "\n", and the body is drawn from LineStreams.          *)
FrameNext ==
    \/ \E s \in LineStreams : SendOk(1, s)
    \/ \E k \in LineEnds(body) : ReadChunk(1, k)
    \/ StreamEnd(1)

FrameSpec == StreamInit /\ [][FrameNext]_vars

(* send_message_streaming up to the provider's answer, for every           *)
(* conversation of at most MaxMessages messages and MaxBlocks blocks and    *)
(* either mode.                                                            *)
RequestInit ==
    /\ api_key \in Keys
    /\ running = TRUE
    /\ agent_lock = <<TaskId(1)>>
    /\ call_pc = [c \in Calls |-> IF c = 1 THEN "done" ELSE "idle"]
    /\ call_ret = [c \in Calls |-> IF c = 1 THEN "Ok" ELSE "none"]
    /\ task_pc = [c \in Calls |-> IF c = 1 THEN "request" ELSE "none"]
    /\ outcome = [c \in Calls |-> "none"]
    /\ cmd_pc = "idle"
    /\ cmd_key = NoKey
    /\ requests = 0
    /\ response = <<>>
    /\ body = <<>>
    /\ full_text = <<>>
    /\ event_tx = <<>>
    /\ sm_ret = NoRet
    /\ issued_in_run = [c \in Calls |-> FALSE]
    /\ cancel_mark = -1
    /\ stream_err = FALSE
    /\ messages \in MessageLists(MaxMessages, MaxBlocks)
    /\ mode \in Modes
    /\ request_body = NoRequest
    /\ stored_key = NoKey

RequestNext ==
    \/ SendFail(1)
    \/ \E text \in Bodies : SendStatusError(1, text)
    \/ \E s \in RunStreams : SendOk(1, s)

RequestSpec == RequestInit /\ [][RequestNext]_vars

(* The program from the start of main, with the storage of keys: storage   *)
(* holds a key or none when the process starts, and every body arrives in  *)
(* a single chunk.                                                         *)
KeyInit ==
    /\ api_key = NoKey
    /\ running = FALSE
    /\ agent_lock = <<>>
    /\ call_pc = [c \in Calls |-> "idle"]
    /\ call_ret = [c \in Calls |-> "none"]
    /\ task_pc = [c \in Calls |-> "none"]
    /\ outcome = [c \in Calls |-> "none"]
    /\ cmd_pc = "boot"
    /\ cmd_key = NoKey
    /\ requests = 0
    /\ response = <<>>
    /\ body = <<>>
    /\ full_text = <<>>
    /\ event_tx = <<>>
    /\ sm_ret = NoRet
    /\ issued_in_run = [c \in Calls |-> FALSE]
    /\ cancel_mark = -1
    /\ stream_err = FALSE
    /\ messages = DefaultMessages
    /\ mode = "Computer"
    /\ request_body = NoRequest
    /\ stored_key \in {NoKey} \cup StoredKeys

\* the application has started and serves commands
Started == cmd_pc # "boot"

KeyNext ==
    \/ MainLoadKeys
    \/ \E c \in Calls : Started /\ RunAgentCall(c)
    \/ \E c \in Calls : RunAgentCheck(c)
    \/ \E c \in Calls : TaskLock(c)
    \/ \E c \in Calls : RunBegin(c)
    \/ \E c \in Calls : RunCancelled(c)
    \/ \E c \in Calls : RunTurn(c)
    \/ \E c \in Calls : SendFail(c)
    \/ \E c \in Calls, text \in Bodies : SendStatusError(c, text)
    \/ \E c \in Calls, s \in RunStreams : SendOk(c, s)
    \/ \E c \in Calls : ReadErrorBody(c)
    \/ \E c \in Calls : ReadChunk(c, Len(body))
    \/ \E c \in Calls : StreamEnd(c)
    \/ \E c \in Calls : RunEnd(c)
    \/ \E c \in Calls : RunCrash(c)
    \/ \E c \in Calls : TaskExit(c)
    \/ Started /\ StopAgent
    \/ Started /\ IsAgentRunning
    \/ \E k \in StoredKeys : Started /\ SaveApiKey(k)
    \/ \E k \in Keys : SetApiKeyCall(k)
    \/ SetApiKey
    \/ CheckApiKeyCall
    \/ CheckApiKey

KeySpec == KeyInit /\ [][KeyNext]_vars

(* ------------------------------ claims -------------------------------- *)

\* C1: a run_agent invoked while a run is executing fails with "Agent is
\* already running": it does not wait for that run and then start another.
C1_RejectedWhileRunning ==
    \A c \in Calls :
        issued_in_run[c] => call_ret[c] \in {"none", "AlreadyRunning"}

\* the runs that were accepted and have not finished
ActiveRuns == {c \in Calls : task_pc[c] \in {"spawned", "locking"} \cup RunPcs}

\* C2: in every interleaving of run_agent calls at most one accepted run is
\* unfinished at any time.
C2_AtMostOneAccepted == Cardinality(ActiveRuns) <= 1

\* C5: once a task's run has ended, by whichever path, the running flag is
\* set only while another run is executing.
C5_FlagClearedOnEveryExit ==
    \A c \in Calls :
        task_pc[c] \in {"exit", "done"} =>
            (running => \E d \in Calls : InRun(d))

\* C5 witness: a run that failed and a run that crashed have both ended, and
\* the flag is clear.
C5_Witness ==
    /\ ~running
    /\ \E c, d \in Calls :
          /\ task_pc[c] = "done" /\ outcome[c] = "Failed"
          /\ task_pc[d] = "done" /\ outcome[d] = "Crashed"

\* a command is suspended on `agent.lock().await`
CommandWaits == cmd_pc # "idle" \/ \E d \in Calls : call_pc[d] = "lock"

\* C6: while a run awaits the provider, no command waits for the agent lock
\* behind that run's task.
C6_LockNotHeldAcrossAwait ==
    \A c \in Calls :
        (task_pc[c] \in AwaitPcs /\ CommandWaits) => ~Holds(TaskId(c))

\* the call has returned after it opened the response stream
StreamReturned == task_pc[1] = "returned" /\ response \in Streams

\* what decoding the whole body as a single chunk gives
Unfragmented(s) == ProcessChunk(s, [text |-> <<>>, events |-> <<>>])

\* C3: however the body is split into chunks, the events sent and the text
\* returned are those of the unfragmented body.
C3_FragmentationInvariant ==
    (StreamReturned /\ sm_ret.kind = "Ok") =>
        /\ event_tx = Unfragmented(response).events
        /\ sm_ret.content = OkRet(Unfragmented(response).text).content

\* C4: after stop_agent is invoked while the stream is in flight, at most one
\* further frame is decoded and sent as a StreamEvent.
C4_AbortAfterStop ==
    cancel_mark # -1 => Len(event_tx) <= cancel_mark + 1

\* C7: a call that opened a stream ends its events with Done or Error, and
\* for "Hel", "lo", [DONE] it sends TextDelta "Hel", TextDelta "lo", Done and
\* returns the text "Hello".
C7_TerminatedByDoneOrError ==
    StreamReturned =>
        /\ event_tx # <<>>
        /\ event_tx[Len(event_tx)].type \in {"Done", "Error"}
        /\ (response = HelloStream /\ sm_ret.kind = "Ok") =>
              /\ event_tx = <<TextDelta(<<"H", "e", "l">>), TextDelta(<<"l", "o">>),
                              [type |-> "Done", text |-> <<>>]>>
              /\ sm_ret.content = OkRet(<<"H", "e", "l", "l", "o">>).content

\* the lines of s that carry the tool-call marker m
MarkLines(s, m) ==
    {i \in 1..Len(Lines(s)) : Lines(s)[i] = DataPrefix \o <<"{", m, "}">>}

\* a tool call is started and no completion marker follows it
UnterminatedToolUse(s) ==
    \E i \in MarkLines(s, "t") : \A j \in MarkLines(s, "f") : j < i

\* C8: a stream that ends with a tool call started and not completed makes
\* the call return a protocol error, and no ToolUse block is returned.
C8_UnterminatedToolUseIsError ==
    (StreamReturned /\ ~stream_err /\ UnterminatedToolUse(response)) =>
        /\ sm_ret.kind = "Err"
        /\ sm_ret.error = "Protocol"
        /\ \A i \in 1..Len(sm_ret.content) : sm_ret.content[i].type # "ToolUse"

\* the call has returned after the provider answered with a non-success status
StatusErrorReturned == task_pc[1] = "returned" /\ response \in Bodies

\* C9 as stated: on a non-success status the call returns ApiError::Api with
\* the provider's text, after one request, no event and no content.
C9_ApiErrorOnStatus ==
    StatusErrorReturned =>
        /\ sm_ret = ApiErrorRet(response)
        /\ requests = 1
        /\ event_tx = <<>>

\* C9 amended: on a non-success status the call returns ApiError::Api with the
\* provider's text or, when reading the body failed, the error of that read;
\* either way after one request, with no event and no content.
C9_ApiOrReadErrorOnStatus ==
    StatusErrorReturned =>
        /\ \/ sm_ret = ErrRet("Api", <<"Gemini API error: ">> \o response)
           \/ sm_ret = ErrRet("Transport", <<>>)
        /\ sm_ret.content = <<>>
        /\ requests = 1
        /\ event_tx = <<>>

\* C9 witness: the body of the error response was read and is in the error.
C9_Witness ==
    /\ StatusErrorReturned
    /\ sm_ret.error = "Api"
    /\ sm_ret.message = <<"Gemini API error: ", "quota exceeded">>

\* C10: once reading a chunk has failed the call has returned an error with
\* no content, and nothing more of the body is read or decoded.
C10_ChunkErrorDiscardsText ==
    /\ [](stream_err =>
            /\ task_pc[1] = "returned"
            /\ sm_ret.kind = "Err"
            /\ sm_ret.content = <<>>)
    /\ [][stream_err => UNCHANGED <<body, full_text, event_tx, sm_ret>>]_vars

\* C10 witness: the read failed after text was decoded and before the end of
\* the body.
C10_Witness ==
    /\ stream_err
    /\ full_text # <<>>
    /\ body # <<>>
    /\ sm_ret.kind = "Err"

\* a run_agent returns an error in this step
Rejected(c) == call_ret[c] = "none" /\ call_ret'[c] \in {"NoKey", "AlreadyRunning"}

\* C11: a run_agent that finds no API key, or the agent running, returns its
\* error without spawning a task or sending a request, and leaves the running
\* flag, the key and the state of every run as they were; a call is accepted
\* only with a key set and the flag clear.
C11_ErrorBeforeSpawn ==
    /\ [](\A c \in Calls :
            call_ret[c] \in {"NoKey", "AlreadyRunning"} => task_pc[c] = "none")
    /\ [][\A c \in Calls :
            /\ Rejected(c) =>
                  /\ running \/ api_key = NoKey
                  /\ UNCHANGED <<running, api_key, task_pc, outcome, stream_vars>>
            /\ (call_ret[c] = "none" /\ call_ret'[c] = "Ok") =>
                  (~running /\ api_key # NoKey)]_vars

\* C11 witness: a call made with no key set has returned the error, and no
\* task exists.
C11_Witness ==
    \E c \in Calls :
        /\ call_pc[c] = "done"
        /\ call_ret[c] = "NoKey"
        /\ task_pc[c] = "none"
        /\ requests = 0

\* C12: stop_agent can be taken in every state, whoever holds the agent lock,
\* and a step that clears the flag without ending a run changes nothing else:
\* not the key, the lock, any command, any task or the call in flight.
C12_StopOnlyClearsFlag ==
    /\ [](ENABLED StopAgent)
    /\ [][(running /\ ~running' /\ task_pc' = task_pc) =>
            UNCHANGED <<api_key, agent_lock, call_vars, task_pc, outcome,
                        cmd_vars, stream_vars>>]_vars

\* C12 witness: the flag was cleared while a run's stream is in flight, and
\* the run's task still holds the lock and reads the stream.
C12_Witness ==
    \E c \in Calls :
        /\ task_pc[c] = "streaming"
        /\ Holds(TaskId(c))
        /\ ~running
        /\ cancel_mark # -1

\* the call has returned after it read a body delivered line by line
FrameReturned == task_pc[1] = "returned" /\ response \in LineStreams

SentinelLine == DataPrefix \o DoneSentinel

\* the line is skipped by the decoder: blank, no prefix, or JSON that fails
IsJunk(line) ==
    \/ ~StartsWithData(line)
    \/ LET data == SubSeq(line, Len(DataPrefix) + 1, Len(line))
       IN data # DoneSentinel /\ ~JsonOk(data)

\* the lines joined again, each with its "\n"
RECURSIVE Unlines(_)
Unlines(ls) == IF ls = <<>> THEN <<>> ELSE Head(ls) \o <<NL>> \o Unlines(Tail(ls))

\* the body without its junk lines
Clean(s) == Unlines(SelectSeq(Lines(s), LAMBDA line : ~IsJunk(line)))

\* the first sentinel of the body is its last line
SentinelLast(s) ==
    \A i \in 1..Len(Lines(s)) : Lines(s)[i] = SentinelLine => i = Len(Lines(s))

\* C13: for a body of whole lines, the junk lines before the sentinel change
\* nothing: the call returns Ok, and the events sent and the text returned
\* are those of the body with the junk lines taken out.
C13_JunkLinesSkipped ==
    (FrameReturned /\ SentinelLast(response)) =>
        /\ sm_ret = OkRet(Unfragmented(Clean(response)).text)
        /\ event_tx = Unfragmented(Clean(response)).events

\* C13 witness: a body with a line of broken JSON before a text frame was
\* read to its end and gave that frame's text.
C13_Witness ==
    /\ FrameReturned
    /\ SentinelLast(response)
    /\ Lines(response)[1] = DataPrefix \o <<"{", "c", "x">>
    /\ IsJunk(Lines(response)[1])
    /\ event_tx = <<TextDelta(<<"H", "e", "l">>)>>
    /\ sm_ret.kind = "Ok"

\* the texts of the events, joined in the order they were sent
RECURSIVE ConcatTexts(_)
ConcatTexts(evs) ==
    IF evs = <<>> THEN <<>> ELSE Head(evs).text \o ConcatTexts(Tail(evs))

\* C14: a successful return carries exactly one block, a Text block, whose
\* text is the texts of the TextDelta events sent, joined in order; with no
\* delta the block is there and its text is empty.
C14_SingleTextBlock ==
    sm_ret.kind = "Ok" =>
        /\ Len(sm_ret.content) = 1
        /\ sm_ret.content[1].type = "Text"
        /\ \A i \in 1..Len(event_tx) : event_tx[i].type = "TextDelta"
        /\ sm_ret.content[1].text = ConcatTexts(event_tx)

\* C14 witness: a call returned Ok after it sent two deltas.
C14_Witness ==
    /\ StreamReturned
    /\ sm_ret.kind = "Ok"
    /\ Len(event_tx) = 2
    /\ sm_ret.content[1].text = event_tx[1].text \o event_tx[2].text
    /\ event_tx[1].text # <<>> /\ event_tx[2].text # <<>>

\* the bytes of the body read so far
Received == SubSeq(response, 1, Len(response) - Len(body))

\* the index of the last "\n" of s, 0 when it has none
LastNL(s) ==
    IF \E i \in 1..Len(s) : s[i] = NL
    THEN CHOOSE i \in 1..Len(s) : s[i] = NL /\ \A j \in (i + 1)..Len(s) : s[j] # NL
    ELSE 0

\* the lines of s that their newline has completed
CompleteLines(s) == SubSeq(s, 1, LastNL(s))

\* C16: a trailing piece of a line is held until its newline arrives: every
\* event sent and all the text aggregated come from the lines of the received
\* bytes that are complete.
C16_PartialLineHeld ==
    (task_pc[1] \in {"streaming", "returned"} /\ response \in Streams) =>
        /\ Len(event_tx) <= Len(Unfragmented(CompleteLines(Received)).events)
        /\ Len(full_text) <= Len(Unfragmented(CompleteLines(Received)).text)

\* a is b with some of its elements left out, the order kept
RECURSIVE IsSubseq(_, _)
IsSubseq(a, b) ==
    \/ a = <<>>
    \/ /\ b # <<>>
       /\ IF Head(a) = Head(b) THEN IsSubseq(Tail(a), Tail(b))
                               ELSE IsSubseq(a, Tail(b))

IsPrefix(a, b) == Len(a) <= Len(b) /\ SubSeq(b, 1, Len(a)) = a

\* C19: the events on the channel are in the order of the provider's frames:
\* what has been sent is never reordered or taken back, a new event goes
\* behind the ones already sent, and the events sent are events of the
\* body's frames in the body's order.
C19_EventsInFrameOrder ==
    /\ [](IsSubseq(event_tx, Unfragmented(response).events))
    /\ [][IsPrefix(event_tx, event_tx') /\ IsPrefix(full_text, full_text')]_vars

\* C19 witness: the two frames of the example were sent, "Hel" before "lo".
C19_Witness ==
    /\ response = HelloStream
    /\ task_pc[1] = "streaming"
    /\ event_tx = <<TextDelta(<<"H", "e", "l">>), TextDelta(<<"l", "o">>)>>

\* the sentinel is among the lines read so far
SentinelRead ==
    \E i \in 1..Len(Lines(Received)) : Lines(Received)[i] = SentinelLine

\* C17: once `data: [DONE]` has been read the stream is over: a frame behind
\* it, in the same chunk or in a later one, sends no event and adds no text.
C17_NothingAfterSentinel ==
    /\ [][(response \in LineStreams /\ SentinelRead) =>
            UNCHANGED <<event_tx, full_text>>]_vars
    /\ [](FrameReturned =>
            /\ event_tx = Unfragmented(response).events
            /\ sm_ret = OkRet(Unfragmented(response).text))

\* the event a frame reporting token counts is to give
UsageEvent == [type |-> "Usage", text |-> <<>>]

\* json carries usage metadata
HasUsage(data) == data = <<"{", "u", "}">>

\* one event for a frame with text, one for a frame with usage metadata,
\* none for any other line; nothing behind the sentinel
RECURSIVE ExpectedEvents(_)
ExpectedEvents(ls) ==
    IF ls = <<>> THEN <<>>
    ELSE LET line == Head(ls) IN
         IF IsJunk(line) THEN ExpectedEvents(Tail(ls))
         ELSE LET data == SubSeq(line, Len(DataPrefix) + 1, Len(line)) IN
              IF data = DoneSentinel THEN <<>>
              ELSE IF HasContent(data)
                   THEN <<TextDelta(ContentOf(data))>> \o ExpectedEvents(Tail(ls))
              ELSE IF HasUsage(data)
                   THEN <<UsageEvent>> \o ExpectedEvents(Tail(ls))
              ELSE ExpectedEvents(Tail(ls))

\* C18: every parsed frame gives at most one event: a TextDelta for a frame
\* with text, a Usage event for a frame with usage metadata, none otherwise.
C18_OneEventPerFrame ==
    (FrameReturned /\ SentinelLast(response)) =>
        event_tx = ExpectedEvents(Lines(response))

\* the request of the call has been built
RequestBuilt == task_pc[1] \in {"error_body", "streaming", "returned"} /\ requests = 1

\* C15: the outbound list is one system message, the prompt of the mode,
\* then one message per input message in the input's order with its role.
C15_SystemThenOnePerMessage ==
    RequestBuilt =>
        LET out == request_body.messages IN
        /\ Len(out) = Len(messages) + 1
        /\ out[1].role = "system"
        /\ mode = "Computer" => out[1].content = "SYSTEM_PROMPT"
        /\ mode = "Browser" => out[1].content = "BROWSER_SYSTEM_PROMPT"
        /\ \A i \in 1..Len(messages) :
              out[i + 1].role = messages[i].role /\ out[i + 1].role # "system"

\* C15 witness: a Browser call with a user and an assistant message sent
\* three outbound messages.
C15_Witness ==
    /\ RequestBuilt
    /\ mode = "Browser"
    /\ Len(messages) = 2
    /\ messages[1].role = "user" /\ messages[2].role = "assistant"
    /\ Len(request_body.messages) = 3

\* the Text and Image blocks of a content, in its order
Carried(blocks) == SelectSeq(blocks, LAMBDA b : b.type \in {"Text", "Image"})

\* C20: every message keeps its place, with a part per Text block and per
\* Image block in the blocks' order, an image as the data URL of its media
\* type and data; ToolUse and ToolResult blocks give no part, and a message
\* left without parts is still sent.
C20_TextAndImageCarried ==
    RequestBuilt =>
        /\ Len(request_body.messages) = Len(messages) + 1
        /\ \A i \in 1..Len(messages) :
              LET parts == request_body.messages[i + 1].content
                  kept  == Carried(messages[i].content)
              IN /\ Len(parts) = Len(kept)
                 /\ \A j \in 1..Len(kept) :
                       /\ kept[j].type = "Text" =>
                             parts[j].type = "text" /\ parts[j].text = kept[j].text
                       /\ kept[j].type = "Image" =>
                             /\ parts[j].type = "image_url"
                             /\ parts[j].url = <<"data:", kept[j].media_type,
                                                 ";base64,", kept[j].data>>

\* C20 witness: a message of a single ToolUse block was sent with no part,
\* before a message whose image was sent as a data URL.
C20_Witness ==
    /\ RequestBuilt
    /\ Len(messages) = 2
    /\ messages[1].content = <<OtherBlock("ToolUse")>>
    /\ request_body.messages[2].content = <<>>
    /\ messages[2].content = <<ImageBlock("image/png", "AAAA")>>
    /\ request_body.messages[3].content[1].url =
           <<"data:", "image/png", ";base64,", "AAAA">>

\* the tasks that are inside Agent::run
Executing == {c \in Calls : InRun(c)}

\* C21: at most one spawned task is inside Agent::run at any time, and the
\* task that is inside holds the agent mutex, whatever the running flag says.
C21_OneRunAtATime ==
    /\ Cardinality(Executing) <= 1
    /\ \A c \in Executing : Holds(TaskId(c))

\* C21 witness: two runs were accepted; one is inside Agent::run reading its
\* stream with the flag cleared by stop_agent, the other waits for the mutex.
C21_Witness ==
    \E c, d \in Calls :
        /\ c # d
        /\ task_pc[c] = "streaming" /\ Holds(TaskId(c))
        /\ task_pc[d] = "locking" /\ ~Holds(TaskId(d))
        /\ call_ret[c] = "Ok" /\ call_ret[d] = "Ok"
        /\ ~running

====
